---- MODULE Spec2Model ----
(***************************************************************************)
(* A model of hat-backup's staging pipeline primitives:                    *)
(*   - the unique priority queue   (src/src/hat/unique_priority_queue.rs)  *)
(*   - the blob index actor        (src/src/hat/blob_index.rs)             *)
(*   - the directory walker        (src/src/hat/listdir.rs)                *)
(*   - the retry helper            (src/src/hat/hat.rs)                    *)
(*   - the blob store's commit protocol with the blob index                *)
(*   - the backup's path handler   (src/src/hat/hat.rs)                    *)
(* Each component has its own specification (SpecUPQ, SpecBlob, SpecWalk,  *)
(* SpecRetry, SpecStore, SpecInsert) over the shared variable list; a      *)
(* component's actions leave the others' variables alone.  SpecRecovery is *)
(* the blob index once more, with one client and longer runs.              *)
(***************************************************************************)
EXTENDS Integers, Sequences, FiniteSets, TLC

VARIABLES
  \* ---- UniquePriorityQueue<P, K, V> ----
  priority,         \* OrderedCollection<P, (Status<K>, Option<V>)>
  key_to_priority,  \* HashMap<K, P>
  upq_alive,        \* FALSE once a method panicked (expect / unreachable!)
  upq_ret,          \* what the last method call returned
  in_use,           \* history: the caller's record of its own inputs, p -> (k, v, rdy)
  last_popped,      \* history: priority of the latest successful pop (0: none yet)
  low_since,        \* history: a reserve below last_popped succeeded since that pop
  pop_obs           \* history: when the latest call is a successful pop, last_popped and
                    \* low_since as they were before it; NoPopObs otherwise

upq_vars == <<priority, key_to_priority, upq_alive, upq_ret, in_use,
              last_popped, low_since, pop_obs>>

VARIABLES
  \* ---- BlobIndex, its process and its clients ----
  bi_state,         \* "running", "failed" (a fail! unwound the task) or "killed"
  disk,             \* the blob_index table as committed to the database file
  dbh,              \* the table as the open connection sees it (with uncommitted work)
  next_id,          \* BlobIndex.next_id
  reserved,         \* BlobIndex.reserved: name -> BlobDesc
  h_pc,             \* "idle"; "commit": statement executed, new_transaction() not yet;
                    \* "reply": new_transaction() done, reply(CommitOK) not yet
  inbox,            \* the process's inbox: the clients whose message is queued, in order
  req,              \* the message each client has sent and not yet had answered
  reply,            \* the reply the latest step sent, if it sent one, and its client
  reserve_log,      \* history: every BlobDesc replied by Reserve, over all processes
  log_mark,         \* history: length of reserve_log when the running process started
  life              \* history: per entry of reserve_log, "reserved", "inair" (its InAir
                    \* was acknowledged), "processed" (then its CommitDone committed)
                    \* or "done" (and acknowledged)

bi_vars == <<bi_state, disk, dbh, next_id, reserved, h_pc, inbox, req, reply,
             reserve_log, log_mark, life>>

VARIABLES
  \* ---- listdir::iterate_recursively: the master, the channel and the pool ----
  m_pc,             \* the master: "seed" (before push_ch.send(Some(root))), "loop" or "done"
  work_ch,          \* the buffer of sync_channel(threads): push_ch sends, work_ch receives
  running_workers,  \* the master's counter
  pool,             \* per pool thread, the procs handed to it and not yet started
  pool_next,        \* the pool thread the next pool.execute goes to
  thr,              \* per pool thread, where it is in the proc it runs
  hp_calls,         \* history: per path, the handle_path calls made with it
  hp_some,          \* history: per path, the handle_path calls that returned Some
  dispatched,       \* history: per path, the tasks the master handed to the pool
  open_res,         \* history: per path, the results of DirIterator::new, in order
  idle_sent         \* history: per path, the send(None) of its tasks

wk_vars == <<m_pc, work_ch, running_workers, pool, pool_next, thr,
             hp_calls, hp_some, dispatched, open_res, idle_sent>>

VARIABLES
  \* ---- try_a_few_times_then_fail, as put_chunks and checkout_in_dir use it ----
  rt_pc,            \* "caller" (between two calls), "loop" (in the helper) or "failed"
  rt_i,             \* the helper's loop variable i
  rt_msg,           \* the msg argument of the latest call; after fail!, the failure's message
  rt_tries,         \* history: what f() returned at each attempt of the latest call
  rt_done           \* history: per call that returned, the attempts it made

rt_vars == <<rt_pc, rt_i, rt_msg, rt_tries, rt_done>>

VARIABLES
  \* ---- the blob store and what lies behind it ----
  bs_pc,            \* where the blob store is in Reserve and Flush
  bs_desc,          \* the BlobDesc of its open output blob
  backend,          \* the names of the blobs the backend holds
  hash_rows         \* the names of the blobs that committed hash rows refer to

bs_vars == <<bs_pc, bs_desc, backend, hash_rows>>

VARIABLES
  \* ---- InsertPathHandler, its clones in the walker's tasks, the key store's inbox ----
  clock,            \* time::now().to_timespec().sec, the wall clock in whole seconds
  ih_pc,            \* where InsertPathHandler::new is: "new" (not entered), "last_print"
                    \* (last_print made, my_last_print not yet) or "made"
  count,            \* InsertPathHandler.count, behind its mutex
  last_print,       \* InsertPathHandler.last_print (its sec), behind its mutex
  last_print_lock,  \* the holder of last_print's mutex (NoHolder: free)
  my_last_print,    \* my_last_print (its sec) of the handler snapshot_dir made
  tasks_due,        \* directory tasks of the walk that no pool thread has started yet
  tw,               \* per pool thread, the clone t_worker of the task it runs and
                    \* where that is in handle_path
  ks_inbox,         \* the Insert messages sent to the key store and not yet answered
  progress,         \* history: the progress lines printed, each as the now it was printed at
  returned          \* history: when the latest step is a return of handle_path, the
                    \* call it ends; NoReturn otherwise

ih_vars == <<clock, ih_pc, count, last_print, last_print_lock, my_last_print,
             tasks_due, tw, ks_inbox, progress, returned>>

vars == <<upq_vars, bi_vars, wk_vars, rt_vars, bs_vars, ih_vars>>

(***************************************************************************)
(* Bounds of the model.                                                    *)
(***************************************************************************)
MaxPrio == 2
MaxKey == 2
MaxVal == 2
MaxReserves == 2   \* Reserves the clients of the blob index send over a run
NumClients == 2    \* clients of the blob index process

Prios == 1..MaxPrio
Keys == 1..MaxKey
Vals == 1..MaxVal
\* the closures |&V| -> V handed to update_value: a successor (wrapping) and a constant
UpdateFns == {[v \in Vals |-> (v % MaxVal) + 1], [v \in Vals |-> MaxVal]}

(***************************************************************************)
(* Option<T>: None is the empty tuple, Some(x) the one-element tuple.      *)
(***************************************************************************)
None == <<>>
Some(x) == <<x>>
IsSome(o) == o # None
Unwrap(o) == o[1]

(***************************************************************************)
(* Status<K> and the (Status<K>, Option<V>) entries of the ordered map.    *)
(***************************************************************************)
Pending(k) == [tag |-> "Pending", key |-> k]
Ready(k) == [tag |-> "Ready", key |-> k]
Entry(status, value) == [status |-> status, value |-> value]

(***************************************************************************)
(* OrderedCollection<K, V>: an ordered map, ascending by key.  Its source  *)
(* is not part of the files at hand; it is modelled from its use and from  *)
(* the specification ("ordered map from P to (status, option<V>), sorted   *)
(* ascending").  A collection is a function whose domain is its key set.   *)
(***************************************************************************)
OC_new == <<>>
OC_find(oc, k) == IF k \in DOMAIN oc THEN Some(oc[k]) ELSE None
OC_insert(oc, k, v) == [x \in (DOMAIN oc) \cup {k} |-> IF x = k THEN v ELSE oc[x]]
OC_remove(oc, k) == [x \in (DOMAIN oc) \ {k} |-> oc[x]]
OC_len(oc) == Cardinality(DOMAIN oc)
OC_min(oc) == CHOOSE k \in DOMAIN oc : \A x \in DOMAIN oc : k <= x
\* pop_min_when(ready): removes and returns the minimum entry if the closure
\* ready(k, v) holds of it; the closure is given as the set of keys it accepts
OC_pop_min_when(oc, ready) ==
  IF DOMAIN oc = {} THEN [popped |-> None, oc |-> oc]
  ELSE LET k == OC_min(oc) IN
       IF k \in ready
       THEN [popped |-> Some(<<k, oc[k]>>), oc |-> OC_remove(oc, k)]
       ELSE [popped |-> None, oc |-> oc]

(***************************************************************************)
(* The methods of UniquePriorityQueue, as functions from the two maps and  *)
(* the arguments to the outcome: the maps afterwards, the value returned,  *)
(* and whether the call panicked.                                          *)
(***************************************************************************)
Outcome(pri, k2p, ret, panicked) ==
  [priority |-> pri, key_to_priority |-> k2p, ret |-> ret, panic |-> panicked]

new == Outcome(OC_new, <<>>, "unit", FALSE)

\* a variant that rejects duplicate priorities only
reserve_priority_prio_only(pri, k2p, p, k) ==
  IF IsSome(OC_find(pri, p))
  THEN Outcome(pri, k2p, "Err", FALSE)
  ELSE Outcome(OC_insert(pri, p, Entry(Pending(k), None)),
               [x \in (DOMAIN k2p) \cup {k} |-> IF x = k THEN p ELSE k2p[x]],
               "Ok", FALSE)

reserve_priority(pri, k2p, p, k) ==
  IF IsSome(OC_find(pri, p)) \/ k \in DOMAIN k2p
  THEN Outcome(pri, k2p, "Err", FALSE)
  ELSE Outcome(OC_insert(pri, p, Entry(Pending(k), None)),
               [x \in (DOMAIN k2p) \cup {k} |-> IF x = k THEN p ELSE k2p[x]],
               "Ok", FALSE)

find_key(k2p, k) == IF k \in DOMAIN k2p THEN Some(k2p[k]) ELSE None

\* a variant that writes the entry back as Pending
put_value_resets_status(pri, k2p, k, v) ==
  IF k \notin DOMAIN k2p
  THEN Outcome(pri, k2p, "panic", TRUE)
  ELSE LET prio == k2p[k]
           opt == OC_find(pri, prio)
       IN IF IsSome(opt) /\ Unwrap(opt).value = None
          THEN Outcome(OC_insert(pri, prio, Entry(Pending(Unwrap(opt).status.key), Some(v))),
                       k2p, "unit", FALSE)
          ELSE Outcome(pri, k2p, "panic", TRUE)

put_value(pri, k2p, k, v) ==
  IF k \notin DOMAIN k2p
  THEN Outcome(pri, k2p, "panic", TRUE)                 \* expect("put_value: Key must exist.")
  ELSE LET prio == k2p[k]
           opt == OC_find(pri, prio)
       IN IF IsSome(opt) /\ Unwrap(opt).value = None    \* Some(&(ref status, None))
          THEN Outcome(OC_insert(pri, prio, Entry(Unwrap(opt).status, Some(v))),
                       k2p, "unit", FALSE)
          ELSE Outcome(pri, k2p, "panic", TRUE)         \* unreachable!()

\* a variant that looks the key itself up in the priority map
find_value_of_key_looks_up_key(pri, k2p, k) ==
  IF k \notin DOMAIN k2p THEN None
  ELSE LET opt == OC_find(pri, k)
       IN IF IsSome(opt) THEN Unwrap(opt).value ELSE None

find_value_of_key(pri, k2p, k) ==
  IF k \notin DOMAIN k2p THEN None
  ELSE LET opt == OC_find(pri, k2p[k])
       IN IF IsSome(opt) THEN Unwrap(opt).value ELSE None

update_value(pri, k2p, k, f) ==
  IF k \notin DOMAIN k2p
  THEN Outcome(pri, k2p, "panic", TRUE)                 \* expect("update_value: Key must exist.")
  ELSE LET prio == k2p[k]
           opt == OC_find(pri, prio)
       IN IF IsSome(opt) /\ IsSome(Unwrap(opt).value)   \* Some(&(ref status, Some(ref v)))
          THEN Outcome(OC_insert(pri, prio,
                         Entry(Unwrap(opt).status, Some(f[Unwrap(Unwrap(opt).value)]))),
                       k2p, "unit", FALSE)
          ELSE Outcome(pri, k2p, "panic", TRUE)         \* unreachable!()

\* a variant that returns quietly when the entry is Ready already
set_ready_idempotent(pri, k2p, p) ==
  LET opt == OC_find(pri, p)
  IN IF IsSome(opt)
     THEN Outcome(OC_insert(pri, p, Entry(Ready(Unwrap(opt).status.key), Unwrap(opt).value)),
                  k2p, "unit", FALSE)
     ELSE Outcome(pri, k2p, "panic", TRUE)

\* a variant that does not carry the value over
set_ready_drops_value(pri, k2p, p) ==
  LET opt == OC_find(pri, p)
  IN IF IsSome(opt) /\ Unwrap(opt).status.tag = "Pending"
     THEN Outcome(OC_insert(pri, p, Entry(Ready(Unwrap(opt).status.key), None)),
                  k2p, "unit", FALSE)
     ELSE Outcome(pri, k2p, "panic", TRUE)

set_ready(pri, k2p, p) ==
  LET opt == OC_find(pri, p)
  IN IF IsSome(opt) /\ Unwrap(opt).status.tag = "Pending"  \* Some(&(Pending(ref k), ref v_opt))
     THEN Outcome(OC_insert(pri, p, Entry(Ready(Unwrap(opt).status.key), Unwrap(opt).value)),
                  k2p, "unit", FALSE)
     ELSE Outcome(pri, k2p, "panic", TRUE)              \* unreachable!()

\* the closure of pop_min_if_complete: "We are ready and have a value"
IsComplete(p, e) == e.status.tag = "Ready" /\ IsSome(e.value)

\* a variant that pops the lowest complete entry, passing over incomplete ones
pop_min_if_complete_skips(pri, k2p) ==
  LET done == {p \in DOMAIN pri : IsComplete(p, pri[p])}
  IN IF done = {}
     THEN Outcome(pri, k2p, None, FALSE)
     ELSE LET p == CHOOSE x \in done : \A y \in done : x <= y
              e == pri[p]
          IN Outcome(OC_remove(pri, p),
                     [x \in (DOMAIN k2p) \ {e.status.key} |-> k2p[x]],
                     Some(<<p, e.status.key, Unwrap(e.value)>>), FALSE)

\* a variant that forgets self.key_to_priority.pop(&k)
pop_min_if_complete_keeps_key(pri, k2p) ==
  LET r == OC_pop_min_when(pri, {x \in DOMAIN pri : IsComplete(x, pri[x])})
  IN IF r.popped = None
     THEN Outcome(r.oc, k2p, None, FALSE)
     ELSE LET p == Unwrap(r.popped)[1]
              e == Unwrap(r.popped)[2]
          IN Outcome(r.oc, k2p, Some(<<p, e.status.key, Unwrap(e.value)>>), FALSE)

pop_min_if_complete(pri, k2p) ==
  LET r == OC_pop_min_when(pri, {x \in DOMAIN pri : IsComplete(x, pri[x])})
  IN IF r.popped = None
     THEN Outcome(r.oc, k2p, None, FALSE)
     ELSE LET p == Unwrap(r.popped)[1]
              e == Unwrap(r.popped)[2]
          IN IF e.status.tag = "Ready"
             THEN Outcome(r.oc,
                          [x \in (DOMAIN k2p) \ {e.status.key} |-> k2p[x]],
                          Some(<<p, e.status.key, Unwrap(e.value)>>), FALSE)
             ELSE Outcome(r.oc, k2p, "panic", TRUE)     \* unreachable!()

len(pri, k2p) == OC_len(pri)

(***************************************************************************)
(* The queue as a state machine: one action per method call.               *)
(***************************************************************************)
NoPopObs == [prev |-> 0, low |-> FALSE]

UPQStart ==
  /\ priority = new.priority
  /\ key_to_priority = new.key_to_priority
  /\ upq_alive = TRUE
  /\ upq_ret = [op |-> "new", args |-> <<>>, val |-> new.ret]
  /\ in_use = <<>>
  /\ last_popped = 0
  /\ low_since = FALSE
  /\ pop_obs = NoPopObs

\* the effect of a call on the queue itself
Apply(op, args, out) ==
  /\ priority' = out.priority
  /\ key_to_priority' = out.key_to_priority
  /\ upq_alive' = ~out.panic
  /\ upq_ret' = [op |-> op, args |-> args, val |-> out.ret]

ReservePriority ==
  /\ UNCHANGED <<bi_vars, wk_vars, rt_vars, bs_vars, ih_vars>>
  /\ upq_alive
  /\ \E p \in Prios, k \in Keys :
       LET out == reserve_priority(priority, key_to_priority, p, k) IN
       /\ Apply("reserve_priority", <<p, k>>, out)
       /\ in_use' = IF out.ret = "Ok"
                    THEN [x \in (DOMAIN in_use) \cup {p} |->
                            IF x = p THEN [k |-> k, v |-> None, rdy |-> FALSE] ELSE in_use[x]]
                    ELSE in_use
       /\ low_since' = (low_since \/ (out.ret = "Ok" /\ p < last_popped))
       /\ pop_obs' = NoPopObs
       /\ UNCHANGED last_popped

PutValue ==
  /\ UNCHANGED <<bi_vars, wk_vars, rt_vars, bs_vars, ih_vars>>
  /\ upq_alive
  /\ \E k \in Keys, v \in Vals :
       LET out == put_value(priority, key_to_priority, k, v) IN
       /\ Apply("put_value", <<k, v>>, out)
       /\ in_use' = IF out.panic THEN in_use
                    ELSE [x \in DOMAIN in_use |->
                            IF in_use[x].k = k THEN [in_use[x] EXCEPT !.v = Some(v)]
                            ELSE in_use[x]]
       /\ pop_obs' = NoPopObs
       /\ UNCHANGED <<last_popped, low_since>>

UpdateValue ==
  /\ UNCHANGED <<bi_vars, wk_vars, rt_vars, bs_vars, ih_vars>>
  /\ upq_alive
  /\ \E k \in Keys, f \in UpdateFns :
       LET out == update_value(priority, key_to_priority, k, f) IN
       /\ Apply("update_value", <<k, f>>, out)
       /\ in_use' = IF out.panic THEN in_use
                    ELSE [x \in DOMAIN in_use |->
                            IF in_use[x].k = k
                            THEN [in_use[x] EXCEPT !.v = Some(f[Unwrap(in_use[x].v)])]
                            ELSE in_use[x]]
       /\ pop_obs' = NoPopObs
       /\ UNCHANGED <<last_popped, low_since>>

SetReady ==
  /\ UNCHANGED <<bi_vars, wk_vars, rt_vars, bs_vars, ih_vars>>
  /\ upq_alive
  /\ \E p \in Prios :
       LET out == set_ready(priority, key_to_priority, p) IN
       /\ Apply("set_ready", <<p>>, out)
       /\ in_use' = IF out.panic THEN in_use
                    ELSE [in_use EXCEPT ![p].rdy = TRUE]
       /\ pop_obs' = NoPopObs
       /\ UNCHANGED <<last_popped, low_since>>

PopMinIfComplete ==
  /\ UNCHANGED <<bi_vars, wk_vars, rt_vars, bs_vars, ih_vars>>
  /\ upq_alive
  /\ LET out == pop_min_if_complete(priority, key_to_priority) IN
     /\ Apply("pop_min_if_complete", <<>>, out)
     /\ IF out.panic \/ out.ret = None
        THEN /\ pop_obs' = NoPopObs
             /\ UNCHANGED <<in_use, last_popped, low_since>>
        ELSE /\ in_use' = [x \in (DOMAIN in_use) \ {Unwrap(out.ret)[1]} |-> in_use[x]]
             /\ last_popped' = Unwrap(out.ret)[1]
             /\ low_since' = FALSE
             /\ pop_obs' = [prev |-> last_popped, low |-> low_since]

\* find_key takes &self: the queue stays as it is
FindKey ==
  /\ UNCHANGED <<bi_vars, wk_vars, rt_vars, bs_vars, ih_vars>>
  /\ upq_alive
  /\ \E k \in Keys :
       Apply("find_key", <<k>>,
             Outcome(priority, key_to_priority, find_key(key_to_priority, k), FALSE))
  /\ pop_obs' = NoPopObs
  /\ UNCHANGED <<in_use, last_popped, low_since>>

\* find_value_of_key takes &self and clones the value
FindValueOfKey ==
  /\ UNCHANGED <<bi_vars, wk_vars, rt_vars, bs_vars, ih_vars>>
  /\ upq_alive
  /\ \E k \in Keys :
       Apply("find_value_of_key", <<k>>,
             Outcome(priority, key_to_priority,
                     find_value_of_key(priority, key_to_priority, k), FALSE))
  /\ pop_obs' = NoPopObs
  /\ UNCHANGED <<in_use, last_popped, low_since>>

UPQNext ==
  \/ FindKey
  \/ FindValueOfKey
  \/ ReservePriority
  \/ PutValue
  \/ UpdateValue
  \/ SetReady
  \/ PopMinIfComplete

(***************************************************************************)
(* The blob index.  A row of blob_index is [id, name, tag]; id is the      *)
(* PRIMARY KEY and BlobIndex_UniqueName makes name unique.                 *)
(***************************************************************************)
Clients == 1..NumClients

BlobDesc(name, id) == [name |-> name, id |-> id]
Row(blob, tag) == [id |-> blob.id, name |-> blob.name, tag |-> tag]

\* Msg and Reply
Reserve == [type |-> "Reserve"]
InAir(blob) == [type |-> "InAir", blob |-> blob]
CommitDone(blob) == [type |-> "CommitDone", blob |-> blob]
NoMsg == [type |-> "none"]
Reserved(blob) == [type |-> "Reserved", blob |-> blob]
CommitOK == [type |-> "CommitOK"]
NoReply == [type |-> "none"]
\* a reply on its way to the client whose send_reply waits for it
To(c, r) == [to |-> c, msg |-> r]

\* SELECT MAX(id) FROM blob_index; get_int(0) of the NULL of an empty table is 0
MaxId(rows) ==
  IF rows = {} THEN 0
  ELSE CHOOSE m \in {r.id : r \in rows} : \A r \in rows : r.id <= m

\* a variant that forgets the + 1
refresh_next_id_no_succ(rows) == MaxId(rows)

refresh_next_id(rows) == MaxId(rows) + 1

\* a variant that hands out the counter without advancing it
next_id_call_stuck(nid) == [id |-> nid, next_id |-> nid]

\* fn next_id(&mut self): the id handed out and the counter afterwards
next_id_call(nid) == [id |-> nid, next_id |-> nid + 1]

\* randombytes(24) is the argument name
new_blob_desc(nid, name) ==
  LET n == next_id_call(nid)
  IN [blob |-> BlobDesc(name, n.id), next_id |-> n.next_id]

\* a variant that does not put the desc into the reserved set
reserve_not_recorded(nid, res, name) ==
  LET b == new_blob_desc(nid, name)
  IN [blob |-> b.blob, next_id |-> b.next_id, reserved |-> res]

reserve(nid, res, name) ==
  LET b == new_blob_desc(nid, name)
  IN [blob |-> b.blob,
      next_id |-> b.next_id,
      reserved |-> [x \in (DOMAIN res) \cup {name} |-> IF x = name THEN b.blob ELSE res[x]]]

\* a variant after INSERT OR REPLACE: the new row takes the place of the old
SqlInsert_or_replace(rows, row) ==
  [ok |-> TRUE,
   rows |-> {r \in rows : r.id # row.id /\ r.name # row.name} \cup {row}]

\* INSERT INTO blob_index (id, name, tag) VALUES (..): fails on a used id or name
SqlInsert(rows, row) ==
  IF \E r \in rows : r.id = row.id \/ r.name = row.name
  THEN [ok |-> FALSE, rows |-> rows]
  ELSE [ok |-> TRUE, rows |-> rows \cup {row}]

\* UPDATE blob_index SET tag=0 WHERE id=..: succeeds, also when no row matches
SqlUpdateTag0(rows, id) ==
  [ok |-> TRUE, rows |-> {IF r.id = id THEN [r EXCEPT !.tag = 0] ELSE r : r \in rows}]

\* a variant that writes the row as committed at once
in_air_writes_tag0(rows, res, blob) ==
  IF blob.name \notin DOMAIN res
  THEN [panic |-> TRUE, dbh |-> rows]
  ELSE LET x == SqlInsert(rows, Row(blob, 0))
       IN [panic |-> ~x.ok, dbh |-> x.rows]

\* a variant without the assert!
in_air_unchecked(rows, res, blob) ==
  LET x == SqlInsert(rows, Row(blob, 1))
  IN [panic |-> ~x.ok, dbh |-> x.rows]

\* in_air up to its new_transaction(): the assert! and the INSERT
in_air(rows, res, blob) ==
  IF blob.name \notin DOMAIN res
  THEN [panic |-> TRUE, dbh |-> rows]                 \* "blob was not reserved!"
  ELSE LET x == SqlInsert(rows, Row(blob, 1))
       IN [panic |-> ~x.ok, dbh |-> x.rows]           \* exec_or_die

\* a variant whose UPDATE changes nothing
commit_blob_no_update(rows, res, blob) ==
  IF blob.name \notin DOMAIN res
  THEN [panic |-> TRUE, dbh |-> rows]
  ELSE [panic |-> FALSE, dbh |-> rows]

\* commit_blob up to its new_transaction(): the assert! and the UPDATE
commit_blob(rows, res, blob) ==
  IF blob.name \notin DOMAIN res
  THEN [panic |-> TRUE, dbh |-> rows]                 \* "blob was not reserved!"
  ELSE LET x == SqlUpdateTag0(rows, blob.id)
       IN [panic |-> ~x.ok, dbh |-> x.rows]           \* exec_or_die

\* a variant that opens the next transaction without committing this one
new_transaction_no_commit(rows, dsk) == dsk

\* "COMMIT; BEGIN": the table on disk afterwards
new_transaction(rows, dsk) == rows

\* Drop for BlobIndex: "COMMIT"
drop(rows, dsk) == rows

\* BlobIndex::new and initialize over the table on disk
initialize(dsk) == [dbh |-> dsk, next_id |-> refresh_next_id(dsk), reserved |-> <<>>]

(***************************************************************************)
(* The blob index process and its clients.                                 *)
(***************************************************************************)
BIStart ==
  /\ bi_state = "running"
  /\ disk = {}
  /\ dbh = initialize({}).dbh
  /\ next_id = initialize({}).next_id
  /\ reserved = initialize({}).reserved
  /\ h_pc = "idle"
  /\ inbox = <<>>
  /\ req = [c \in Clients |-> NoMsg]
  /\ reply = To(0, NoReply)
  /\ reserve_log = <<>>
  /\ log_mark = 0
  /\ life = <<>>

Issued == {reserve_log[i] : i \in DOMAIN reserve_log}
UsedNames == {b.name : b \in Issued}
\* randombytes(24): any value, whether an earlier call returned it or not;
\* nothing compares the new name with the reserved set or the ledger.  The
\* code only ever compares names for equality, so runs that differ by a
\* renaming of the names behave alike: the names are numbered as they first
\* come up, and a draw is any name drawn before or the next new one.
randombytes == UsedNames \cup {Cardinality(UsedNames) + 1}
Cur == inbox[1]

\* the process dies: its clients' pending calls fail with it
Die(how) ==
  /\ bi_state' = how
  /\ h_pc' = "idle"
  /\ inbox' = <<>>
  /\ req' = [c \in Clients |-> NoMsg]
  /\ reply' = To(0, NoReply)
  /\ next_id' = -1
  /\ reserved' = <<>>

\* a failed assert! or exec_or_die unwinds the task; Drop commits what is open
Fail ==
  /\ Die("failed")
  /\ disk' = drop(dbh, disk)
  /\ dbh' = drop(dbh, disk)
  /\ UNCHANGED <<reserve_log, log_mark, life>>

\* the Reserves sent and not yet answered
PendingReserves == Cardinality({c \in Clients : req[c] = Reserve})

\* what a client may send: the desc of any Reserved reply made so far, and a
\* Reserve as long as fewer than cap were sent over the run
Sendable(cap) ==
  {InAir(b) : b \in Issued} \cup {CommitDone(b) : b \in Issued}
    \cup (IF Len(reserve_log) + PendingReserves < cap THEN {Reserve} ELSE {})

\* client c sends a message (send_reply) and waits for its reply
SendBy(c, cap) ==
  /\ UNCHANGED <<upq_vars, wk_vars, rt_vars, bs_vars, ih_vars>>
  /\ bi_state = "running"
  /\ req[c] = NoMsg
  /\ \E m \in Sendable(cap) :
       /\ req' = [req EXCEPT ![c] = m]
       /\ inbox' = Append(inbox, c)
  /\ reply' = To(0, NoReply)
  /\ UNCHANGED <<bi_state, disk, dbh, next_id, reserved, h_pc,
                 reserve_log, log_mark, life>>

Send == \E c \in Clients : SendBy(c, MaxReserves)

\* handle(Reserve): reply(Reserved(self.reserve()))
HandleReserve ==
  /\ UNCHANGED <<upq_vars, wk_vars, rt_vars, bs_vars, ih_vars>>
  /\ bi_state = "running" /\ h_pc = "idle" /\ inbox # <<>>
  /\ req[Cur] = Reserve
  /\ \E name \in randombytes :
       LET r == reserve(next_id, reserved, name) IN
       /\ next_id' = r.next_id
       /\ reserved' = r.reserved
       /\ reply' = To(Cur, Reserved(r.blob))
       /\ reserve_log' = Append(reserve_log, r.blob)
       /\ life' = Append(life, "reserved")
  /\ req' = [req EXCEPT ![Cur] = NoMsg]
  /\ inbox' = Tail(inbox)
  /\ UNCHANGED <<bi_state, disk, dbh, h_pc, log_mark>>

\* handle(InAir(blob)), first half: self.in_air(&blob) up to new_transaction()
HandleInAir ==
  /\ UNCHANGED <<upq_vars, wk_vars, rt_vars, bs_vars, ih_vars>>
  /\ bi_state = "running" /\ h_pc = "idle" /\ inbox # <<>>
  /\ req[Cur].type = "InAir"
  /\ LET r == in_air(dbh, reserved, req[Cur].blob) IN
     IF r.panic
     THEN Fail
     ELSE /\ dbh' = r.dbh
          /\ h_pc' = "commit"
          /\ reply' = To(0, NoReply)
          /\ UNCHANGED <<bi_state, disk, next_id, reserved, inbox, req,
                         reserve_log, log_mark, life>>

\* handle(CommitDone(blob)), first half: self.commit_blob(&blob) up to new_transaction()
HandleCommitDone ==
  /\ UNCHANGED <<upq_vars, wk_vars, rt_vars, bs_vars, ih_vars>>
  /\ bi_state = "running" /\ h_pc = "idle" /\ inbox # <<>>
  /\ req[Cur].type = "CommitDone"
  /\ LET r == commit_blob(dbh, reserved, req[Cur].blob) IN
     IF r.panic
     THEN Fail
     ELSE /\ dbh' = r.dbh
          /\ h_pc' = "commit"
          /\ reply' = To(0, NoReply)
          /\ UNCHANGED <<bi_state, disk, next_id, reserved, inbox, req,
                         reserve_log, log_mark, life>>

\* new_transaction() of both: exec_or_die("COMMIT; BEGIN") succeeds
NewTransaction ==
  /\ UNCHANGED <<upq_vars, wk_vars, rt_vars, bs_vars, ih_vars>>
  /\ bi_state = "running" /\ h_pc = "commit"
  /\ disk' = new_transaction(dbh, disk)
  /\ h_pc' = "reply"
  /\ reply' = To(0, NoReply)
  /\ life' = [i \in DOMAIN life |->
                IF reserve_log[i] = req[Cur].blob /\ req[Cur].type = "CommitDone"
                   /\ life[i] = "inair"
                THEN "processed" ELSE life[i]]
  /\ UNCHANGED <<bi_state, dbh, next_id, reserved, inbox, req,
                 reserve_log, log_mark>>

\* new_transaction() of both: the exec of "COMMIT; BEGIN" fails and
\* exec_or_die unwinds the task.  The transaction is committed (the COMMIT
\* went through and the BEGIN failed, or the COMMIT of Drop went through) or
\* it is not (no COMMIT went through)
NewTransactionFails ==
  /\ UNCHANGED <<upq_vars, wk_vars, rt_vars, bs_vars, ih_vars>>
  /\ bi_state = "running" /\ h_pc = "commit"
  /\ \E committed \in BOOLEAN :
       /\ disk' = IF committed THEN drop(dbh, disk) ELSE disk
       /\ dbh' = disk'
       /\ life' = [i \in DOMAIN life |->
                     IF committed /\ reserve_log[i] = req[Cur].blob
                        /\ req[Cur].type = "CommitDone" /\ life[i] = "inair"
                     THEN "processed" ELSE life[i]]
  /\ Die("failed")
  /\ UNCHANGED <<reserve_log, log_mark>>

\* handle of both, after in_air or commit_blob has returned: reply(CommitOK)
ReplyCommitOK ==
  /\ UNCHANGED <<upq_vars, wk_vars, rt_vars, bs_vars, ih_vars>>
  /\ bi_state = "running" /\ h_pc = "reply"
  /\ h_pc' = "idle"
  /\ reply' = To(Cur, CommitOK)
  /\ life' = [i \in DOMAIN life |->
                IF reserve_log[i] # req[Cur].blob THEN life[i]
                ELSE IF req[Cur].type = "InAir" THEN "inair"
                ELSE IF life[i] = "processed" THEN "done"
                ELSE life[i]]
  /\ req' = [req EXCEPT ![Cur] = NoMsg]
  /\ inbox' = Tail(inbox)
  /\ UNCHANGED <<bi_state, disk, dbh, next_id, reserved, reserve_log, log_mark>>

\* the process is killed at any point: nothing is unwound, open work is lost
Crash ==
  /\ UNCHANGED <<upq_vars, wk_vars, rt_vars, bs_vars, ih_vars>>
  /\ bi_state = "running"
  /\ Die("killed")
  /\ dbh' = disk
  /\ UNCHANGED <<disk, reserve_log, log_mark, life>>

\* a new process opens the same database file: BlobIndex::new
Restart ==
  /\ UNCHANGED <<upq_vars, wk_vars, rt_vars, bs_vars, ih_vars>>
  /\ bi_state # "running"
  /\ bi_state' = "running"
  /\ dbh' = initialize(disk).dbh
  /\ next_id' = initialize(disk).next_id
  /\ reserved' = initialize(disk).reserved
  /\ log_mark' = Len(reserve_log)
  /\ UNCHANGED <<disk, h_pc, inbox, req, reply, reserve_log, life>>

BINext ==
  \/ Send
  \/ HandleReserve
  \/ HandleInAir
  \/ HandleCommitDone
  \/ NewTransaction
  \/ NewTransactionFails
  \/ ReplyCommitOK
  \/ Crash
  \/ Restart

(***************************************************************************)
(* The blob index with one client and one Reserve more: the runs in which  *)
(* a process started on the ledger of an earlier one hands out descs of    *)
(* its own and is sent a desc the earlier one gave out.                    *)
(***************************************************************************)
SoleClient == 1

SoleClientSend == SendBy(SoleClient, MaxReserves + 1)

RecoveryNext ==
  \/ SoleClientSend
  \/ HandleReserve
  \/ HandleInAir
  \/ HandleCommitDone
  \/ NewTransaction
  \/ NewTransactionFails
  \/ ReplyCommitOK
  \/ Crash
  \/ Restart

(***************************************************************************)
(* listdir::iterate_recursively.  The file tree walked is fixed: the paths *)
(* are 1..MaxNodes, path 1 is the root handed to iterate_recursively and   *)
(* the entries of directory n are ".", ".." and the paths 2n and 2n+1 (as  *)
(* far as they exist).  What the environment decides is left open: whether *)
(* opendir succeeds on a path, whether an entry's name is valid UTF-8 and  *)
(* what handle_path returns for an entry.                                  *)
(***************************************************************************)
MaxNodes == 6
threads == 5

Threads == 1..threads
Nodes == 1..MaxNodes
Root == 1
RootPayload == 0
Dot == -1
DotDot == -2
Paths == Nodes \cup {Dot, DotDot}

\* what readdir yields for an opened directory, in order
Entries(n) ==
  <<Dot, DotDot>> \o (IF 2 * n <= MaxNodes THEN <<2 * n>> ELSE <<>>)
                  \o (IF 2 * n + 1 <= MaxNodes THEN <<2 * n + 1>> ELSE <<>>)

\* the payloads a PathHandler may return for a path: here the path's own name
\* (as the backup handler returns the id the key store gave the directory)
ChildPayload(parent, path) == path

\* a variant of the loop's filter that lets every entry through
NextEntry_unfiltered(entries, pos) == pos

\* for file in it { if file != "." && file != ".." { .. } }: the position of
\* the next entry, from pos on, that the loop body is run for (Len + 1: none)
RECURSIVE NextEntry(_, _)
NextEntry(entries, pos) ==
  IF pos > Len(entries) THEN pos
  ELSE IF entries[pos] # Dot /\ entries[pos] # DotDot THEN pos
  ELSE NextEntry(entries, pos + 1)

\* a pool thread between two procs
IdleThread == [pc |-> "idle", root |-> 0, payload |-> 0, pos |-> 0, out |-> None]

\* the proc of a task after an entry is dealt with: on to the next entry the
\* body runs for, or past the loop to the send(None)
Advance(t) ==
  LET nxt == NextEntry(Entries(t.root), t.pos + 1)
  IN IF nxt > Len(Entries(t.root))
     THEN [t EXCEPT !.pc = "signal", !.pos = nxt, !.out = None]
     ELSE [t EXCEPT !.pc = "iter", !.pos = nxt, !.out = None]

Bump(f, x) == [f EXCEPT ![x] = @ + 1]

\* let res = DirIterator::new(..); if res.is_ok() { the loop }; then send(None)
AfterOpen(t, ok) == IF ok THEN Advance(t) ELSE [t EXCEPT !.pc = "signal"]

\* a variant that leaves the loop at the first idle signal
OnIdleSignal_breaks_at_once(rw) == [running_workers |-> rw - 1, pc |-> "done"]

\* None => { running_workers -= 1; if running_workers == 0 { break } }
OnIdleSignal(rw) ==
  [running_workers |-> rw - 1, pc |-> IF rw - 1 = 0 THEN "done" ELSE "loop"]

WKStart ==
  /\ m_pc = "seed"
  /\ work_ch = <<>>
  /\ running_workers = 0
  /\ pool = [w \in Threads |-> <<>>]
  /\ pool_next = 1
  /\ thr = [w \in Threads |-> IdleThread]
  /\ hp_calls = [n \in Paths |-> 0]
  /\ hp_some = [n \in Paths |-> 0]
  /\ dispatched = [n \in Paths |-> 0]
  /\ open_res = [n \in Paths |-> <<>>]
  /\ idle_sent = [n \in Paths |-> 0]

\* push_ch.send(Some(root)); let mut running_workers = 0i;
MasterSeed ==
  /\ UNCHANGED <<upq_vars, bi_vars, rt_vars, bs_vars, ih_vars>>
  /\ m_pc = "seed"
  /\ Len(work_ch) < threads
  /\ work_ch' = Append(work_ch, Some(<<Root, RootPayload>>))
  /\ m_pc' = "loop"
  /\ running_workers' = 0
  /\ UNCHANGED <<pool, pool_next, thr, hp_calls, hp_some, dispatched, open_res, idle_sent>>

\* work_ch.recv() yields None: running_workers -= 1; break at 0
MasterIdleSignal ==
  /\ UNCHANGED <<upq_vars, bi_vars, rt_vars, bs_vars, ih_vars>>
  /\ m_pc = "loop"
  /\ work_ch # <<>>
  /\ work_ch[1] = None
  /\ work_ch' = Tail(work_ch)
  /\ running_workers' = OnIdleSignal(running_workers).running_workers
  /\ m_pc' = OnIdleSignal(running_workers).pc
  /\ UNCHANGED <<pool, pool_next, thr, hp_calls, hp_some, dispatched, open_res, idle_sent>>

\* work_ch.recv() yields Some((root, payload)): running_workers += 1 and
\* pool.execute(proc), which queues the proc at the pool's threads in turn
MasterDispatch ==
  /\ UNCHANGED <<upq_vars, bi_vars, rt_vars, bs_vars, ih_vars>>
  /\ m_pc = "loop"
  /\ work_ch # <<>>
  /\ work_ch[1] # None
  /\ work_ch' = Tail(work_ch)
  /\ running_workers' = running_workers + 1
  /\ IF thr[pool_next].pc = "failed"
     THEN \* the pool thread is gone and its channel closed: the send in execute fails
          /\ m_pc' = "failed"
          /\ UNCHANGED <<pool, pool_next, dispatched>>
     ELSE /\ pool' = [pool EXCEPT ![pool_next] = Append(@, Unwrap(work_ch[1]))]
          /\ pool_next' = IF pool_next = threads THEN 1 ELSE pool_next + 1
          /\ dispatched' = Bump(dispatched, Unwrap(work_ch[1])[1])
          /\ UNCHANGED m_pc
  /\ UNCHANGED <<thr, hp_calls, hp_some, open_res, idle_sent>>

\* a pool thread starts its next proc: DirIterator::new(root.clone())
WorkerOpen(w) ==
  /\ UNCHANGED <<upq_vars, bi_vars, rt_vars, bs_vars, ih_vars>>
  /\ thr[w].pc = "idle"
  /\ pool[w] # <<>>
  /\ pool' = [pool EXCEPT ![w] = Tail(@)]
  /\ \E ok \in BOOLEAN :
       LET t == [pc |-> "iter", root |-> pool[w][1][1], payload |-> pool[w][1][2],
                 pos |-> 0, out |-> None]
       IN /\ thr' = [thr EXCEPT ![w] = AfterOpen(t, ok)]
          /\ open_res' = [open_res EXCEPT ![t.root] = Append(@, ok)]
  /\ UNCHANGED <<m_pc, work_ch, running_workers, pool_next,
                 hp_calls, hp_some, dispatched, idle_sent>>

\* DirIterator::read on an entry whose name is not UTF-8: expect("Path not
\* UTF8.") fails the pool thread's task, which so never sends its None
WorkerReadFails(w) ==
  /\ UNCHANGED <<upq_vars, bi_vars, rt_vars, bs_vars, ih_vars>>
  /\ thr[w].pc = "iter"
  /\ thr' = [thr EXCEPT ![w].pc = "failed"]
  /\ UNCHANGED <<m_pc, work_ch, running_workers, pool, pool_next,
                 hp_calls, hp_some, dispatched, open_res, idle_sent>>

\* the loop body for one entry: root.push(rel_path); handle_path(payload, root)
WorkerHandlePath(w) ==
  /\ UNCHANGED <<upq_vars, bi_vars, rt_vars, bs_vars, ih_vars>>
  /\ thr[w].pc = "iter"
  /\ LET t == thr[w]
         child == Entries(t.root)[t.pos]
     IN /\ hp_calls' = Bump(hp_calls, child)
        /\ \E dir_opt \in {None, Some(ChildPayload(t.payload, child))} :
             IF IsSome(dir_opt)
             THEN /\ thr' = [thr EXCEPT ![w] = [t EXCEPT !.pc = "push",
                                                   !.out = Some(<<child, Unwrap(dir_opt)>>)]]
                  /\ hp_some' = Bump(hp_some, child)
             ELSE /\ thr' = [thr EXCEPT ![w] = Advance(t)]
                  /\ UNCHANGED hp_some
  /\ UNCHANGED <<m_pc, work_ch, running_workers, pool, pool_next,
                 dispatched, open_res, idle_sent>>

\* t_push_ch.send(Some((root.clone(), dir_opt.unwrap()))): waits while the buffer is full
WorkerPush(w) ==
  /\ UNCHANGED <<upq_vars, bi_vars, rt_vars, bs_vars, ih_vars>>
  /\ thr[w].pc = "push"
  /\ IF m_pc = "failed"
     THEN \* the receiving end is gone: the send fails the task
          /\ thr' = [thr EXCEPT ![w].pc = "failed"]
          /\ UNCHANGED work_ch
     ELSE /\ Len(work_ch) < threads
          /\ work_ch' = Append(work_ch, thr[w].out)
          /\ thr' = [thr EXCEPT ![w] = Advance(thr[w])]
  /\ UNCHANGED <<m_pc, running_workers, pool, pool_next,
                 hp_calls, hp_some, dispatched, open_res, idle_sent>>

\* t_push_ch.send(None): waits while the buffer is full; the proc ends
WorkerSignal(w) ==
  /\ UNCHANGED <<upq_vars, bi_vars, rt_vars, bs_vars, ih_vars>>
  /\ thr[w].pc = "signal"
  /\ IF m_pc = "failed"
     THEN \* the receiving end is gone: the send fails the task
          /\ thr' = [thr EXCEPT ![w].pc = "failed"]
          /\ UNCHANGED <<work_ch, idle_sent>>
     ELSE /\ Len(work_ch) < threads
          /\ work_ch' = Append(work_ch, None)
          /\ idle_sent' = Bump(idle_sent, thr[w].root)
          /\ thr' = [thr EXCEPT ![w] = IdleThread]
  /\ UNCHANGED <<m_pc, running_workers, pool, pool_next,
                 hp_calls, hp_some, dispatched, open_res>>

WalkNext ==
  \/ MasterSeed
  \/ MasterIdleSignal
  \/ MasterDispatch
  \/ \E w \in Threads : WorkerOpen(w)
  \/ \E w \in Threads : WorkerReadFails(w)
  \/ \E w \in Threads : WorkerHandlePath(w)
  \/ \E w \in Threads : WorkerPush(w)
  \/ \E w \in Threads : WorkerSignal(w)

(***************************************************************************)
(* try_a_few_times_then_fail(f, msg), called as in checkout_in_dir: once   *)
(* per chunk of a file ("Could not write chunk.") and once more to flush   *)
(* it ("Could not flush file.").  What f() returns is up to the            *)
(* environment.                                                            *)
(***************************************************************************)
MaxChunks == 2
RangeFrom == 1
RangeTo == 5

\* the message of the call after k calls have returned
MsgOfCall(k) == IF k < MaxChunks THEN "Could not write chunk." ELSE "Could not flush file."

\* a variant whose range includes its upper end
RangeHasNext_inclusive(i, hi) == i <= hi

\* for i in range(lo, hi): the loop body runs for i while i < hi
RangeHasNext(i, hi) == i < hi

RTStart ==
  /\ rt_pc = "caller"
  /\ rt_i = 0
  /\ rt_msg = ""
  /\ rt_tries = <<>>
  /\ rt_done = <<>>

\* put_chunks / checkout_in_dir call the helper for the next write or flush
RetryCall ==
  /\ UNCHANGED <<upq_vars, bi_vars, wk_vars, bs_vars, ih_vars>>
  /\ rt_pc = "caller"
  /\ Len(rt_done) <= MaxChunks
  /\ rt_pc' = "loop"
  /\ rt_i' = RangeFrom
  /\ rt_msg' = MsgOfCall(Len(rt_done))
  /\ rt_tries' = <<>>
  /\ UNCHANGED rt_done

\* one turn of the loop: if f() { return }
RetryAttempt ==
  /\ UNCHANGED <<upq_vars, bi_vars, wk_vars, bs_vars, ih_vars>>
  /\ rt_pc = "loop"
  /\ RangeHasNext(rt_i, RangeTo)
  /\ \E ok \in BOOLEAN :
       /\ rt_tries' = Append(rt_tries, ok)
       /\ IF ok
          THEN /\ rt_pc' = "caller"
               /\ rt_done' = Append(rt_done, Len(rt_tries) + 1)
               /\ UNCHANGED rt_i
          ELSE /\ rt_i' = rt_i + 1
               /\ UNCHANGED <<rt_pc, rt_done>>
  /\ UNCHANGED rt_msg

\* the range is used up: fail!(msg.to_string())
RetryExhausted ==
  /\ UNCHANGED <<upq_vars, bi_vars, wk_vars, bs_vars, ih_vars>>
  /\ rt_pc = "loop"
  /\ ~RangeHasNext(rt_i, RangeTo)
  /\ rt_pc' = "failed"
  /\ UNCHANGED <<rt_i, rt_msg, rt_tries, rt_done>>

RetryNext ==
  \/ RetryCall
  \/ RetryAttempt
  \/ RetryExhausted

(***************************************************************************)
(* The blob store as the blob index's client (hat.rs, open_family:         *)
(* BlobStore -> BlobIndex).  Its source is not part of the files at hand;  *)
(* its Flush is modelled from the specification: "sends InAir for the      *)
(* current desc, writes the buffer to the backend under desc.name, on      *)
(* success sends CommitDone, then opens a new Reserved blob", and a hash   *)
(* row refers to a blob only after the blob's CommitDone.  The store, the  *)
(* blob index and the hash index are tasks of one program: a crash ends    *)
(* them together, the backend and the database files stay.                 *)
(***************************************************************************)
StoreClient == 1
NoDesc == BlobDesc(0, 0)

BSStart ==
  /\ bs_pc = "new"
  /\ bs_desc = NoDesc
  /\ backend = {}
  /\ hash_rows = {}

\* send_reply(m) to the blob index
StoreSend(m) ==
  /\ bi_state = "running"
  /\ req[StoreClient] = NoMsg
  /\ req' = [req EXCEPT ![StoreClient] = m]
  /\ inbox' = Append(inbox, StoreClient)
  /\ reply' = To(0, NoReply)
  /\ UNCHANGED <<bi_state, disk, dbh, next_id, reserved, h_pc,
                 reserve_log, log_mark, life>>

\* the store asks for the desc of its next output blob (for the first
\* MaxReserves blobs of a run)
StoreReserve ==
  /\ UNCHANGED <<upq_vars, wk_vars, rt_vars, ih_vars>>
  /\ bs_pc = "new"
  /\ Len(reserve_log) < MaxReserves
  /\ StoreSend(Reserve)
  /\ bs_pc' = "reserving"
  /\ UNCHANGED <<bs_desc, backend, hash_rows>>

\* Reserved(desc) arrives: the output blob is open
StoreReserved ==
  /\ UNCHANGED <<upq_vars, bi_vars, wk_vars, rt_vars, ih_vars>>
  /\ bs_pc = "reserving"
  /\ reply.to = StoreClient /\ reply.msg.type = "Reserved"
  /\ bs_desc' = reply.msg.blob
  /\ bs_pc' = "open"
  /\ UNCHANGED <<backend, hash_rows>>

\* Flush: sends InAir for the current desc
StoreInAir ==
  /\ UNCHANGED <<upq_vars, wk_vars, rt_vars, ih_vars>>
  /\ bs_pc = "open"
  /\ StoreSend(InAir(bs_desc))
  /\ bs_pc' = "inair"
  /\ UNCHANGED <<bs_desc, backend, hash_rows>>

\* Flush: InAir is acknowledged; writes the buffer to the backend under desc.name
StoreBackendWrite ==
  /\ UNCHANGED <<upq_vars, bi_vars, wk_vars, rt_vars, ih_vars>>
  /\ bs_pc = "inair"
  /\ reply = To(StoreClient, CommitOK)
  /\ backend' = backend \cup {bs_desc.name}
  /\ bs_pc' = "stored"
  /\ UNCHANGED <<bs_desc, hash_rows>>

\* Flush: on success sends CommitDone
StoreCommitDone ==
  /\ UNCHANGED <<upq_vars, wk_vars, rt_vars, ih_vars>>
  /\ bs_pc = "stored"
  /\ StoreSend(CommitDone(bs_desc))
  /\ bs_pc' = "committing"
  /\ UNCHANGED <<bs_desc, backend, hash_rows>>

\* CommitDone is acknowledged: the hash rows of the blob's chunks are
\* committed, and the store goes on to open a new Reserved blob
StoreCommitted ==
  /\ UNCHANGED <<upq_vars, bi_vars, wk_vars, rt_vars, ih_vars>>
  /\ bs_pc = "committing"
  /\ reply = To(StoreClient, CommitOK)
  /\ hash_rows' = hash_rows \cup {bs_desc.name}
  /\ bs_pc' = "new"
  /\ bs_desc' = NoDesc
  /\ UNCHANGED backend

\* the program is killed at any point: Crash, and the store goes with it
StoreCrash ==
  /\ UNCHANGED <<upq_vars, wk_vars, rt_vars, ih_vars>>
  /\ bi_state = "running"
  /\ Die("killed")
  /\ dbh' = disk
  /\ bs_pc' = "dead"
  /\ bs_desc' = NoDesc
  /\ UNCHANGED <<disk, reserve_log, log_mark, life, backend, hash_rows>>

\* the program is started again: Restart, and a new blob store
StoreRestart ==
  /\ UNCHANGED <<upq_vars, wk_vars, rt_vars, ih_vars>>
  /\ bi_state # "running"
  /\ bi_state' = "running"
  /\ dbh' = initialize(disk).dbh
  /\ next_id' = initialize(disk).next_id
  /\ reserved' = initialize(disk).reserved
  /\ log_mark' = Len(reserve_log)
  /\ bs_pc' = "new"
  /\ UNCHANGED <<disk, h_pc, inbox, req, reply, reserve_log, life,
                 bs_desc, backend, hash_rows>>

StoreNext ==
  \/ StoreReserve
  \/ StoreReserved
  \/ StoreInAir
  \/ StoreBackendWrite
  \/ StoreCommitDone
  \/ StoreCommitted
  \/ HandleReserve
  \/ HandleInAir
  \/ HandleCommitDone
  \/ NewTransaction
  \/ NewTransactionFails
  \/ ReplyCommitOK
  \/ StoreCrash
  \/ StoreRestart

(***************************************************************************)
(* InsertPathHandler (hat.rs): the PathHandler of a snapshot.  The walker  *)
(* clones the handler for every directory task and the tasks call          *)
(* handle_path side by side; count and last_print are shared through Arc,  *)
(* my_last_print is each clone's own.  The key store is a process of its   *)
(* own: it answers Insert as section 4.5 of the specification says.        *)
(***************************************************************************)
NumTasks == 2      \* tasks that run handle_path side by side
MaxCalls == 3      \* handle_path calls over a run
MaxClock == 2      \* the wall clock runs over 0..MaxClock

Tasks == 1..NumTasks
NoHolder == 0
\* io::FileType as handle_path tells it apart: a pipe or a device goes the way
\* of TypeFile, being neither a directory nor a symlink
FileTypes == {"TypeFile", "TypeDirectory", "TypeSymlink"}
IoError == "IoError"
StatResults == FileTypes \cup {IoError}
NoEntry == [name |-> 0, parent_id |-> None, kind |-> "", device |-> 0, inode |-> 0]
NoKsReply == [tag |-> "none"]

\* a variant that also passes a stamp of the same second
OlderByASecond_or_same(stamp, now) == stamp <= now

\* stamp.sec <= now.sec - 1, the test of both ifs of the rate limiter
OlderByASecond(stamp, now) == stamp <= now - 1

\* FileEntry::new(full_path, parent) when lstat gives st: the paths the walker
\* hands over end in a file name, and a path stands for its own inode
FileEntryNew(full_path, parent, st) ==
  IF st = IoError
  THEN [ok |-> FALSE, entry |-> NoEntry]
  ELSE [ok |-> TRUE,
        entry |-> [name |-> full_path, parent_id |-> parent, kind |-> st,
                   device |-> 0, inode |-> full_path]]

is_directory(e) == e.kind = "TypeDirectory"

is_symlink(e) == e.kind = "TypeSymlink"

\* KeyEntry::id of a FileEntry: format!("d{:u}i{:u}", device, inode)
id(e) == <<"d", e.device, "i", e.inode>>

\* the argument next to fileEntry in key_store::Insert
create_file_it_opt(e) == IF is_directory(e) THEN None ELSE Some("create_file_it")

\* a variant that descends into whatever the key store gave an id
HandlePathReturn_descends_into_all(is_dir, rep) ==
  IF rep.tag = "Id"
  THEN [failed |-> FALSE, value |-> Some(Some(rep.id))]
  ELSE [failed |-> TRUE, value |-> None]

\* what handle_path does with the key store's reply: the value it returns, or
\* fail!("Unexpected reply from key store.")
HandlePathReturn(is_dir, rep) ==
  IF rep.tag = "Id"
  THEN [failed |-> FALSE, value |-> IF is_dir THEN Some(Some(rep.id)) ELSE None]
  ELSE [failed |-> TRUE, value |-> None]

\* the walker calls handle_path once per entry: the path of the n-th call is
\* entry n, and entry 1 lies in the root, whose payload snapshot_dir gives as None
ParentOf(path) ==
  IF path = 1 THEN None ELSE Some(id(FileEntryNew(1, None, "TypeDirectory").entry))

NoTask ==
  [pc |-> "none", my_last_print |-> 0, parent |-> None, path |-> 0, st |-> "",
   count |-> 0, now |-> 0, sent |-> FALSE, skipped |-> FALSE, reply |-> NoKsReply]

NoReturn == [task |-> 0]

\* the call of task w as it returns ret: its arguments, what lstat gave, whether
\* it sent Insert, whether a skip was logged for its path
Return(w, st, skipped, ret) ==
  [task |-> w, parent |-> tw[w].parent, path |-> tw[w].path, st |-> st,
   sent |-> tw[w].sent, reply |-> tw[w].reply, skipped |-> skipped, ret |-> ret]

\* back between two calls: the clone keeps my_last_print, the locals are gone
Between(w) == [NoTask EXCEPT !.pc = "returned", !.my_last_print = tw[w].my_last_print]

\* snapshot_dir is about to call InsertPathHandler::new
IHStart ==
  /\ clock = 0
  /\ ih_pc = "new"
  /\ count = 0
  /\ last_print = 0
  /\ last_print_lock = NoHolder
  /\ my_last_print = 0
  /\ tasks_due = 0
  /\ tw = [w \in Tasks |-> NoTask]
  /\ ks_inbox = <<>>
  /\ progress = <<>>
  /\ returned = NoReturn

\* a second passes
ClockTick ==
  /\ UNCHANGED <<upq_vars, bi_vars, wk_vars, rt_vars, bs_vars>>
  /\ returned' = NoReturn
  /\ clock < MaxClock
  /\ clock' = clock + 1
  /\ UNCHANGED <<ih_pc, count, last_print, last_print_lock, my_last_print,
                 tasks_due, tw, ks_inbox, progress>>

\* InsertPathHandler::new: count: 0 and last_print: time::now()
NewLastPrint ==
  /\ UNCHANGED <<upq_vars, bi_vars, wk_vars, rt_vars, bs_vars>>
  /\ returned' = NoReturn
  /\ ih_pc = "new"
  /\ count' = 0
  /\ last_print' = clock
  /\ ih_pc' = "last_print"
  /\ UNCHANGED <<clock, last_print_lock, my_last_print, tasks_due, tw, ks_inbox,
                 progress>>

\* InsertPathHandler::new: my_last_print: time::now(), a second read of the
\* clock; snapshot_dir then starts the walk, whose first task is the root's
NewMyLastPrint ==
  /\ UNCHANGED <<upq_vars, bi_vars, wk_vars, rt_vars, bs_vars>>
  /\ returned' = NoReturn
  /\ ih_pc = "last_print"
  /\ my_last_print' = clock
  /\ ih_pc' = "made"
  /\ tasks_due' = 1
  /\ UNCHANGED <<clock, count, last_print, last_print_lock, tw, ks_inbox, progress>>

\* let t_worker = worker.clone(), for the task that pool thread w runs next
CloneHandler(w) ==
  /\ UNCHANGED <<upq_vars, bi_vars, wk_vars, rt_vars, bs_vars>>
  /\ returned' = NoReturn
  /\ tasks_due > 0
  /\ tasks_due' = tasks_due - 1
  /\ tw[w].pc \in {"none", "idle", "returned"}
  /\ tw' = [tw EXCEPT ![w] = [NoTask EXCEPT !.pc = "idle",
                                            !.my_last_print = my_last_print]]
  /\ UNCHANGED <<clock, ih_pc, count, last_print, last_print_lock, my_last_print,
                 ks_inbox, progress>>

\* handle_path(parent, path) is entered: the count block
HandlePathCount(w) ==
  /\ UNCHANGED <<upq_vars, bi_vars, wk_vars, rt_vars, bs_vars>>
  /\ returned' = NoReturn
  /\ tw[w].pc \in {"idle", "returned"}
  /\ count < MaxCalls
  /\ count' = count + 1
  /\ tw' = [tw EXCEPT ![w] = [NoTask EXCEPT !.pc = "check",
                                            !.my_last_print = tw[w].my_last_print,
                                            !.parent = ParentOf(count + 1),
                                            !.path = count + 1,
                                            !.count = count + 1]]
  /\ UNCHANGED <<clock, ih_pc, last_print, last_print_lock, my_last_print,
                 tasks_due, ks_inbox, progress>>

\* if self.my_last_print.sec <= time::now().to_timespec().sec - 1
HandlePathCheck(w) ==
  /\ UNCHANGED <<upq_vars, bi_vars, wk_vars, rt_vars, bs_vars>>
  /\ returned' = NoReturn
  /\ tw[w].pc = "check"
  /\ tw' = [tw EXCEPT ![w].pc =
              IF OlderByASecond(tw[w].my_last_print, clock) THEN "lock" ELSE "stat"]
  /\ UNCHANGED <<clock, ih_pc, count, last_print, last_print_lock, my_last_print,
                 tasks_due, ks_inbox, progress>>

\* self.last_print.lock(): waits while another task holds the mutex
HandlePathLock(w) ==
  /\ UNCHANGED <<upq_vars, bi_vars, wk_vars, rt_vars, bs_vars>>
  /\ returned' = NoReturn
  /\ tw[w].pc = "lock"
  /\ last_print_lock = NoHolder
  /\ last_print_lock' = w
  /\ tw' = [tw EXCEPT ![w].pc = "now"]
  /\ UNCHANGED <<clock, ih_pc, count, last_print, my_last_print, tasks_due,
                 ks_inbox, progress>>

\* let now = time::now().to_timespec()
HandlePathNow(w) ==
  /\ UNCHANGED <<upq_vars, bi_vars, wk_vars, rt_vars, bs_vars>>
  /\ returned' = NoReturn
  /\ tw[w].pc = "now"
  /\ tw' = [tw EXCEPT ![w].now = clock, ![w].pc = "limit"]
  /\ UNCHANGED <<clock, ih_pc, count, last_print, last_print_lock, my_last_print, tasks_due,
                 ks_inbox, progress>>

\* the inner if, self.my_last_print = now, and the end of the block, which
\* drops the guard
HandlePathLimit(w) ==
  /\ UNCHANGED <<upq_vars, bi_vars, wk_vars, rt_vars, bs_vars>>
  /\ returned' = NoReturn
  /\ tw[w].pc = "limit"
  /\ IF OlderByASecond(last_print, tw[w].now)
     THEN /\ progress' = Append(progress, [count |-> tw[w].count, path |-> tw[w].path,
                                           now |-> tw[w].now])
          /\ last_print' = tw[w].now
     ELSE UNCHANGED <<progress, last_print>>
  /\ tw' = [tw EXCEPT ![w].my_last_print = tw[w].now, ![w].now = 0, ![w].pc = "stat"]
  /\ last_print_lock' = NoHolder
  /\ UNCHANGED <<clock, ih_pc, count, my_last_print, tasks_due, ks_inbox>>

\* FileEntry::new and the match on it, up to the Insert sent to the key store
HandlePathStat(w) ==
  /\ UNCHANGED <<upq_vars, bi_vars, wk_vars, rt_vars, bs_vars>>
  /\ tw[w].pc = "stat"
  /\ \E st \in StatResults :
       LET res == FileEntryNew(tw[w].path, tw[w].parent, st) IN
       IF ~res.ok
       THEN \* println!("Skipping ..."), then return None at the end
            /\ tw' = [tw EXCEPT ![w] = Between(w)]
            /\ returned' = Return(w, st, TRUE, None)
            /\ UNCHANGED ks_inbox
       ELSE IF is_symlink(res.entry)
       THEN /\ tw' = [tw EXCEPT ![w] = Between(w)]
            /\ returned' = Return(w, st, FALSE, None)
            /\ UNCHANGED ks_inbox
       ELSE /\ ks_inbox' = Append(ks_inbox,
                                  [from |-> w, entry |-> res.entry,
                                   create_file_it_opt |-> create_file_it_opt(res.entry)])
            /\ tw' = [tw EXCEPT ![w].st = st, ![w].sent = TRUE, ![w].pc = "wait"]
            /\ returned' = NoReturn
  /\ UNCHANGED <<clock, ih_pc, count, last_print, last_print_lock, my_last_print, tasks_due,
                 progress>>

\* the key store takes an Insert and answers Id(id); when it reads the file
\* it calls create_file_it, which logs a skip if the file does not open
KeyStoreInsert ==
  /\ UNCHANGED <<upq_vars, bi_vars, wk_vars, rt_vars, bs_vars>>
  /\ returned' = NoReturn
  /\ ks_inbox # <<>>
  /\ LET msg == ks_inbox[1] IN
     \E opened \in IF msg.create_file_it_opt = None THEN {"unread"}
                   ELSE {"unread", "ok", "error"} :
       tw' = [tw EXCEPT ![msg.from].reply = [tag |-> "Id", id |-> id(msg.entry)],
                        ![msg.from].skipped = (opened = "error")]
  /\ ks_inbox' = Tail(ks_inbox)
  /\ UNCHANGED <<clock, ih_pc, count, last_print, last_print_lock, my_last_print, tasks_due,
                 progress>>

\* send_reply returns: the match on the reply, and return None at the end
HandlePathReply(w) ==
  /\ UNCHANGED <<upq_vars, bi_vars, wk_vars, rt_vars, bs_vars>>
  /\ tw[w].pc = "wait"
  /\ tw[w].reply # NoKsReply
  /\ LET r == HandlePathReturn(tw[w].st = "TypeDirectory", tw[w].reply) IN
     /\ tw' = IF r.failed
              THEN [tw EXCEPT ![w].pc = "failed"]
              ELSE [tw EXCEPT ![w] = Between(w)]
     /\ returned' = IF r.failed THEN NoReturn
                    ELSE Return(w, tw[w].st, tw[w].skipped, r.value)
     \* the walker sends a Some on to the master, which makes a task of it
     /\ tasks_due' = IF r.value # None THEN tasks_due + 1 ELSE tasks_due
  /\ UNCHANGED <<clock, ih_pc, count, last_print, last_print_lock, my_last_print,
                 ks_inbox, progress>>

InsertNext ==
  \/ ClockTick
  \/ NewLastPrint
  \/ NewMyLastPrint
  \/ \E w \in Tasks : CloneHandler(w)
  \/ \E w \in Tasks : HandlePathCount(w)
  \/ \E w \in Tasks : HandlePathCheck(w)
  \/ \E w \in Tasks : HandlePathLock(w)
  \/ \E w \in Tasks : HandlePathNow(w)
  \/ \E w \in Tasks : HandlePathLimit(w)
  \/ \E w \in Tasks : HandlePathStat(w)
  \/ KeyStoreInsert
  \/ \E w \in Tasks : HandlePathReply(w)

Init == UPQStart /\ BIStart /\ WKStart /\ RTStart /\ BSStart /\ IHStart

SpecUPQ == Init /\ [][UPQNext]_vars

SpecBlob == Init /\ [][BINext]_vars
SpecRecovery == Init /\ [][RecoveryNext]_vars

SpecWalk == Init /\ [][WalkNext]_vars

SpecRetry == Init /\ [][RetryNext]_vars

SpecStore == Init /\ [][StoreNext]_vars

SpecInsert == Init /\ [][InsertNext]_vars

(***************************************************************************)
(* Properties of the unique priority queue.                                *)
(***************************************************************************)
MinPrio(pri) == CHOOSE p \in DOMAIN pri : \A q \in DOMAIN pri : p <= q

\* the minimum entry is missing, Pending, or without a value
MinBlocked(pri) ==
  \/ DOMAIN pri = {}
  \/ pri[MinPrio(pri)].status.tag = "Pending"
  \/ pri[MinPrio(pri)].value = None

\* C1: a pop_min_if_complete call returns none and changes neither map when the
\* queue is empty or its minimum entry is Pending or has no value, whatever the
\* state of the higher entries; when it returns (p, k, v), p was the minimum
\* priority present and its entry was Ready(k) with value Some(v).
C1_PopOnlyCompleteMin ==
  [][ (upq_ret'.op = "pop_min_if_complete" /\ upq_alive') =>
        /\ MinBlocked(priority) =>
             /\ upq_ret'.val = None
             /\ priority' = priority
             /\ key_to_priority' = key_to_priority
        /\ upq_ret'.val # None =>
             LET p == Unwrap(upq_ret'.val)[1]
                 k == Unwrap(upq_ret'.val)[2]
                 v == Unwrap(upq_ret'.val)[3]
             IN /\ p \in DOMAIN priority
                /\ \A q \in DOMAIN priority : p <= q
                /\ priority[p] = Entry(Ready(k), Some(v)) ]_vars

\* a pop has just returned none although a higher entry is Ready with a value
C1_Witness ==
  /\ upq_ret.op = "pop_min_if_complete"
  /\ upq_ret.val = None
  /\ \E p, q \in DOMAIN priority :
       /\ p = MinPrio(priority) /\ p < q
       /\ ~IsComplete(p, priority[p])
       /\ IsComplete(q, priority[q])

\* the drain loop: pop_min_if_complete until it returns none
RECURSIVE DrainAll(_, _)
DrainAll(pri, k2p) ==
  LET out == pop_min_if_complete(pri, k2p)
  IN IF out.panic \/ out.ret = None
     THEN [pops |-> <<>>, priority |-> out.priority, key_to_priority |-> out.key_to_priority]
     ELSE LET rest == DrainAll(out.priority, out.key_to_priority)
          IN [rest EXCEPT !.pops = <<Unwrap(out.ret)>> \o @]

\* the caller's completed insertions, as (p, k, v) in ascending order of p
RECURSIVE SortedTriples(_)
SortedTriples(rec) ==
  IF DOMAIN rec = {} THEN <<>>
  ELSE LET p == MinPrio(rec)
       IN <<<<p, rec[p].k, Unwrap(rec[p].v)>>>>
            \o SortedTriples([x \in (DOMAIN rec) \ {p} |-> rec[x]])

AllCompleted(rec) == \A p \in DOMAIN rec : rec[p].rdy /\ IsSome(rec[p].v)

\* C2: once every reserved entry has been completed (put_value and set_ready,
\* in any order and interleaving), draining the queue yields exactly the
\* caller's (p, k, v) triples, each once, in ascending order of p, and leaves
\* both maps empty.
C2_DrainRoundTrip ==
  (upq_alive /\ AllCompleted(in_use)) =>
     LET d == DrainAll(priority, key_to_priority)
     IN /\ d.pops = SortedTriples(in_use)
        /\ DOMAIN d.priority = {}
        /\ DOMAIN d.key_to_priority = {}

\* several entries are complete, the lowest of them completed last
C2_Witness ==
  /\ upq_alive
  /\ Cardinality(DOMAIN in_use) >= 2
  /\ AllCompleted(in_use)
  /\ upq_ret.op = "set_ready"
  /\ upq_ret.args = <<MinPrio(in_use)>>
  /\ Len(DrainAll(priority, key_to_priority).pops) >= 2

\* C3 as stated: the priorities of successive successful pops never decrease.
C3_PopsNonDecreasing == pop_obs.prev <= last_popped

\* C3, amended: the priority of a successful pop is not below that of the
\* previous successful pop unless a reserve_priority call made between the
\* two succeeded with a priority below the earlier pop's.
C3_PopsNonDecreasingUnlessLowReserve ==
  pop_obs.low \/ pop_obs.prev <= last_popped

\* a second pop has succeeded, with no lower reserve since the first
C3_Witness ==
  /\ upq_ret.op = "pop_min_if_complete"
  /\ upq_ret.val # None
  /\ pop_obs.prev > 0
  /\ ~pop_obs.low
  /\ pop_obs.prev < last_popped

\* C4: reserve_priority(p, k) returns Err and changes neither map when p or k
\* is already present; otherwise it returns Ok and inserts exactly the entry
\* (p, Pending(k), None) and the pair (k, p).
C4_ReserveRejectsDuplicates ==
  [][ (upq_ret'.op = "reserve_priority" /\ upq_alive) =>
        LET p == upq_ret'.args[1]
            k == upq_ret'.args[2]
        IN IF p \in DOMAIN priority \/ k \in DOMAIN key_to_priority
           THEN /\ upq_ret'.val = "Err"
                /\ priority' = priority
                /\ key_to_priority' = key_to_priority
           ELSE /\ upq_ret'.val = "Ok"
                /\ DOMAIN priority' = (DOMAIN priority) \cup {p}
                /\ priority'[p] = Entry(Pending(k), None)
                /\ \A q \in DOMAIN priority : priority'[q] = priority[q]
                /\ DOMAIN key_to_priority' = (DOMAIN key_to_priority) \cup {k}
                /\ key_to_priority'[k] = p
                /\ \A j \in DOMAIN key_to_priority : key_to_priority'[j] = key_to_priority[j]
    ]_vars

\* a reserve has just been refused for a fresh priority with a key in use
C4_Witness ==
  /\ upq_ret.op = "reserve_priority"
  /\ upq_ret.val = "Err"
  /\ upq_ret.args[1] \notin DOMAIN priority
  /\ upq_ret.args[2] \in DOMAIN key_to_priority

\* C5: the two maps correspond one to one: len() = |key_to_priority| =
\* |priority|, and every (k, p) of key_to_priority names an entry priority[p]
\* whose status carries k.
C5_MapsCorrespond ==
  /\ len(priority, key_to_priority) = Cardinality(DOMAIN key_to_priority)
  /\ Cardinality(DOMAIN priority) = Cardinality(DOMAIN key_to_priority)
  /\ \A k \in DOMAIN key_to_priority :
       /\ key_to_priority[k] \in DOMAIN priority
       /\ priority[key_to_priority[k]].status.key = k

\* a pop has just removed one entry and another remains
C5_Witness ==
  /\ upq_ret.op = "pop_min_if_complete"
  /\ upq_ret.val # None
  /\ Cardinality(DOMAIN priority) >= 1
  /\ Cardinality(DOMAIN key_to_priority) >= 1

(***************************************************************************)
(* Properties of the blob index.                                           *)
(***************************************************************************)
\* the rows of a table that share the id or the name of blob
RowsOf(rows, blob) == {r \in rows : r.id = blob.id \/ r.name = blob.name}

\* C6: for a BlobDesc returned by Reserve, once InAir(desc) and then
\* CommitDone(desc) have been acknowledged, the ledger holds exactly one row
\* with that id and that name, and its tag is 0.
C6_CommittedRowHasTag0 ==
  \A i \in DOMAIN life :
    life[i] = "done" =>
      /\ RowsOf(disk, reserve_log[i]) = {Row(reserve_log[i], 0)}
      /\ bi_state = "running" => RowsOf(dbh, reserve_log[i]) = {Row(reserve_log[i], 0)}

\* a blob went through Reserve, InAir and CommitDone, each acknowledged
C6_Witness ==
  \E i \in DOMAIN life :
    /\ life[i] = "done"
    /\ Row(reserve_log[i], 0) \in disk

\* C7 as stated: what a CommitOK acknowledged is in the database file,
\* whatever happens to the process afterwards: a blob whose InAir was
\* acknowledged and whose CommitDone was not processed has its row with tag 1
\* on disk, one whose CommitDone was acknowledged too has it with tag 0, and a
\* process that has no statement uncommitted (so: a newly started one) sees
\* exactly the table on disk.
C7_AcknowledgedIsDurable ==
  /\ \A i \in DOMAIN life :
       /\ life[i] = "inair" => Row(reserve_log[i], 1) \in disk
       /\ life[i] = "done" => Row(reserve_log[i], 0) \in disk
  /\ (bi_state = "running" /\ h_pc # "commit") => dbh = disk

\* the step sends the CommitOK of the message of this type at the head of the inbox
Acknowledges(type) ==
  /\ bi_state = "running" /\ h_pc = "reply"
  /\ req[Cur].type = type
  /\ reply' = To(Cur, CommitOK)

\* the step ends the new_transaction() of a CommitDone that carries this id
CommitsCommitDoneOf(row_id) ==
  /\ bi_state = "running" /\ h_pc = "commit"
  /\ req[Cur].type = "CommitDone"
  /\ req[Cur].blob.id = row_id

\* C7, amended: the CommitOK of InAir(desc) is sent with desc's row, tag 1,
\* on disk, the CommitOK of CommitDone(desc) with every row of id desc.id on
\* disk at tag 0, and no step, a kill and a restart included, changes a row
\* on disk other than the new_transaction() of a CommitDone that carries the
\* row's id, which sets its tag to 0: a row stays as acknowledged until a
\* CommitDone carrying its id is committed, be it for the row's own desc or
\* for another desc of the same id.  A process that has no statement
\* uncommitted (so: a newly started one) sees exactly the table on disk.
C7_DurableUntilCommitDoneOfTheId ==
  [][ /\ Acknowledges("InAir") =>
           Row(req[Cur].blob, 1) \in disk /\ Row(req[Cur].blob, 1) \in disk'
      /\ Acknowledges("CommitDone") =>
           \A r \in disk' : r.id = req[Cur].blob.id => r.tag = 0
      /\ \A r \in disk :
           \/ r \in disk'
           \/ CommitsCommitDoneOf(r.id) /\ [r EXCEPT !.tag = 0] \in disk'
      /\ (bi_state' = "running" /\ h_pc' # "commit") => dbh' = disk'
    ]_vars

\* the process was killed after it acknowledged the InAir of a desc it had
\* reserved and before the desc's CommitDone; the row is on disk with tag 1
C7_Witness ==
  /\ bi_state = "killed"
  /\ \E i \in DOMAIN life :
       /\ i > log_mark
       /\ life[i] = "inair"
       /\ Row(reserve_log[i], 1) \in disk

StaleRow(r) ==
  /\ r.name \in DOMAIN reserved
  /\ \E i \in 1..log_mark : reserve_log[i].id = r.id /\ reserve_log[i].name = r.name

C9_ReservedRepliesDistinct ==
  \A i, j \in DOMAIN reserve_log :
    (i > log_mark /\ j > log_mark /\ i # j) =>
      /\ reserve_log[i].id # reserve_log[j].id
      /\ reserve_log[i].name # reserve_log[j].name

\* C9, amended: no two Reserved replies of one blob index process carry the
\* same id, however its clients' Reserves interleave.  (Their names are the
\* values randombytes returned, which nothing keeps apart.)
C9_ReservedIdsDistinct ==
  \A i, j \in DOMAIN reserve_log :
    (i > log_mark /\ j > log_mark /\ i # j) => reserve_log[i].id # reserve_log[j].id

\* one process has answered the Reserves of two clients: the second reply
\* has just been sent to one client while the other's InAir for the desc of
\* the first reply is waiting in the inbox
C9_Witness ==
  /\ bi_state = "running"
  /\ Len(reserve_log) >= log_mark + 2
  /\ reply.msg = Reserved(reserve_log[Len(reserve_log)])
  /\ inbox # <<>>
  /\ req[Cur] = InAir(reserve_log[Len(reserve_log) - 1])
  /\ Cur # reply.to

\* the message at the head of the inbox is an InAir or a CommitDone whose
\* name the running process has not reserved
UnreservedAtHead ==
  /\ bi_state = "running" /\ h_pc = "idle" /\ inbox # <<>>
  /\ req[Cur].type \in {"InAir", "CommitDone"}
  /\ req[Cur].blob.name \notin DOMAIN reserved

\* C10: handling an InAir or CommitDone whose name is not in the reserved set
\* ends the process, sends no reply and changes no ledger row.
C10_UnreservedAborts ==
  [][ (UnreservedAtHead /\ (h_pc' # h_pc \/ bi_state' # bi_state)) =>
        /\ bi_state' # "running"
        /\ reply' = To(0, NoReply)
        /\ disk' = disk
        /\ dbh' = dbh
    ]_vars

\* a process failed on a blob reserved by an earlier process; with an empty
\* table no INSERT can have failed, so it was the assert!
C10_Witness ==
  /\ bi_state = "failed"
  /\ disk = {}
  /\ log_mark >= 1

\* C11: whenever CommitOK is sent in reply to CommitDone(desc), with desc.name
\* in the reserved set, the ledger holds a row with id = desc.id and tag 0.
C11_CommitOKMeansTag0 ==
  [][ (h_pc = "reply" /\ req[Cur].type = "CommitDone" /\ reply'.msg = CommitOK) =>
        /\ req[Cur].blob.name \in DOMAIN reserved
        /\ \E r \in disk' : r.id = req[Cur].blob.id /\ r.tag = 0
    ]_vars

(***************************************************************************)
(* Properties of the directory walker.                                     *)
(***************************************************************************)
RECURSIVE SumLen(_, _)
SumLen(q, ws) ==
  IF ws = {} THEN 0
  ELSE LET w == CHOOSE x \in ws : TRUE IN Len(q[w]) + SumLen(q, ws \ {w})

\* the directory tasks handed to the pool whose idle signal the master has
\* not received: waiting at a pool thread, running, or signalled into the
\* channel and not yet taken out
Outstanding ==
  SumLen(pool, Threads)
  + Cardinality({w \in Threads : thr[w].pc # "idle"})
  + Cardinality({i \in DOMAIN work_ch : work_ch[i] = None})

\* C12: the master's counter equals the number of dispatched directory tasks
\* whose idle signal has not been received, and the master has left its loop
\* only if no task waits or runs and no message is queued or still to be sent.
C12_CounterCountsOutstanding ==
  /\ m_pc # "failed" => running_workers = Outstanding
  /\ m_pc = "done" =>
       /\ work_ch = <<>>
       /\ \A w \in Threads : pool[w] = <<>> /\ thr[w] = IdleThread

\* the master received an idle signal while messages were queued behind it
\* and went on
C12_Witness ==
  /\ m_pc = "loop"
  /\ running_workers >= 2
  /\ Len(work_ch) >= 2
  /\ work_ch[1] = None
  /\ work_ch[2] # None
  /\ \E w \in Threads : thr[w].pc = "push"

\* C13: the walk of a finite tree terminates: no reachable state before the
\* master has left its loop is one in which neither the master nor any pool
\* thread can take a step.
C13_NoDeadlockBeforeDone == m_pc = "done" \/ ENABLED WalkNext

\* C14: handle_path is called at most once per entry and never for "." or
\* ".."; a path becomes a directory task at most once, and only the root and
\* paths handle_path returned Some for do; once the walk is over, every entry
\* of every opened directory has had its one call, and every path with a Some
\* has had its one task.
C14_EachEntryOnce ==
  /\ hp_calls[Dot] = 0 /\ hp_calls[DotDot] = 0
  /\ \A n \in Nodes :
       /\ hp_calls[n] <= 1
       /\ dispatched[n] <= 1
       /\ Len(open_res[n]) <= dispatched[n]
       /\ dispatched[n] <= (IF n = Root THEN 1 ELSE hp_some[n])
  /\ m_pc = "done" =>
       \A n \in Nodes :
         /\ open_res[n] = <<TRUE>> =>
              \A i \in DOMAIN Entries(n) :
                Entries(n)[i] \in Nodes => hp_calls[Entries(n)[i]] = 1
         /\ (n = Root \/ hp_some[n] = 1) => (dispatched[n] = 1 /\ Len(open_res[n]) = 1)

\* the walk is over and every path of the tree was walked as a directory
C14_Witness ==
  /\ m_pc = "done"
  /\ \A n \in Nodes : open_res[n] = <<TRUE>> /\ dispatched[n] = 1

\* the entries of a directory whose open failed are left alone and its task
\* signals once
SkippedUntouched ==
  \A n \in Nodes :
    open_res[n] = <<FALSE>> =>
      /\ \A i \in DOMAIN Entries(n) :
           Entries(n)[i] \in Nodes =>
             /\ hp_calls[Entries(n)[i]] = 0
             /\ dispatched[Entries(n)[i]] = 0
      /\ idle_sent[n] <= 1
      /\ m_pc = "done" => idle_sent[n] = 1

\* C20: a directory that cannot be opened is skipped: handle_path is called
\* for none of its entries, none of them becomes a task, its task sends its
\* idle signal once, and the walk goes on to its end: it does not come to a
\* halt before the master has left its loop.
C20_UnopenableIsSkipped ==
  /\ SkippedUntouched
  /\ (\E n \in Nodes : open_res[n] = <<FALSE>>) => (m_pc = "done" \/ ENABLED WalkNext)

(***************************************************************************)
(* Properties of the retry helper.                                         *)
(***************************************************************************)
\* C15: a call of try_a_few_times_then_fail makes at most 4 attempts; it
\* returns at the first attempt that succeeds, making no further one; it
\* fails, with the message it was given, exactly when 4 attempts have been
\* made and none succeeded.
C15_RetryAtMostFourTimes ==
  /\ Len(rt_tries) <= 4
  /\ \A j \in DOMAIN rt_tries : rt_tries[j] => (j = Len(rt_tries) /\ rt_pc = "caller")
  /\ (rt_pc = "caller" /\ rt_tries # <<>>) =>
       /\ rt_tries[Len(rt_tries)]
       /\ rt_done[Len(rt_done)] = Len(rt_tries)
  /\ rt_pc = "failed" =>
       /\ Len(rt_tries) = 4
       /\ \A j \in DOMAIN rt_tries : ~rt_tries[j]
       /\ rt_msg = MsgOfCall(Len(rt_done))
  /\ \A k \in DOMAIN rt_done : rt_done[k] \in 1..4

\* a write went through at its fourth attempt, and the flush after it failed
C15_Witness ==
  /\ rt_pc = "failed"
  /\ rt_msg = "Could not flush file."
  /\ \E k \in DOMAIN rt_done : rt_done[k] = 4

(***************************************************************************)
(* Properties of the commit protocol between blob store and blob index.    *)
(***************************************************************************)
\* C16: in every reachable state, those after a crash at any step included,
\* every ledger row with tag 0 names a blob the backend holds, and every blob
\* a hash row refers to has a ledger row, with tag 0.
C16_CommittedIsInBackend ==
  /\ \A r \in disk : r.tag = 0 => r.name \in backend
  /\ \A r \in dbh : r.tag = 0 => r.name \in backend
  /\ \A n \in hash_rows : \E r \in disk : r.name = n /\ r.tag = 0

\* a program crashed between the backend write and CommitDone; the one
\* started next has committed a further blob while the first stays tag 1
C16_Witness ==
  /\ bi_state = "running"
  /\ log_mark >= 1
  /\ \E r \in disk : r.tag = 1 /\ r.name \in backend /\ r.name \notin hash_rows
  /\ \E r \in disk : r.tag = 0 /\ r.name \in hash_rows

(***************************************************************************)
(* Further properties of the unique priority queue.                        *)
(***************************************************************************)
\* C17: a put_value(k, v) or update_value(k, f) that returns has changed only
\* the value of k's entry (to Some(v), to Some(f(old))), not its status; a
\* set_ready(p) that returns has changed only the status of p's entry, from
\* Pending(k) to Ready(k), not its value; all three leave every other entry
\* and key_to_priority as they were.
C17_OnlyTheNamedFieldChanges ==
  [][ upq_alive' =>
        /\ upq_ret'.op = "put_value" =>
             LET p == key_to_priority[upq_ret'.args[1]]
             IN /\ priority' = [priority EXCEPT ![p].value = Some(upq_ret'.args[2])]
                /\ key_to_priority' = key_to_priority
        /\ upq_ret'.op = "update_value" =>
             LET p == key_to_priority[upq_ret'.args[1]]
             IN /\ priority' = [priority EXCEPT
                                  ![p].value = Some(upq_ret'.args[2][Unwrap(priority[p].value)])]
                /\ key_to_priority' = key_to_priority
        /\ upq_ret'.op = "set_ready" =>
             LET p == upq_ret'.args[1]
             IN /\ priority[p].status.tag = "Pending"
                /\ priority' = [priority EXCEPT ![p].status = Ready(priority[p].status.key)]
                /\ key_to_priority' = key_to_priority
    ]_vars

\* put_value has just filled the entry of a key that was set Ready before,
\* next to another entry
C17_Witness ==
  /\ upq_alive
  /\ upq_ret.op = "put_value"
  /\ Cardinality(DOMAIN priority) >= 2
  /\ priority[key_to_priority[upq_ret.args[1]]] =
       Entry(Ready(upq_ret.args[1]), Some(upq_ret.args[2]))

\* the precondition violations that abort in the code
ViolatesPrecondition(op, args) ==
  \/ /\ op = "put_value"
     /\ \/ args[1] \notin DOMAIN key_to_priority
        \/ priority[key_to_priority[args[1]]].value # None
  \/ /\ op = "update_value"
     /\ \/ args[1] \notin DOMAIN key_to_priority
        \/ priority[key_to_priority[args[1]]].value = None
  \/ /\ op = "set_ready"
     /\ \/ args[1] \notin DOMAIN priority
        \/ priority[args[1]].status.tag = "Ready"

\* put_value on an entry whose status is Ready
PutValueOnReady(op, args) ==
  /\ op = "put_value"
  /\ args[1] \in DOMAIN key_to_priority
  /\ priority[key_to_priority[args[1]]].status.tag = "Ready"

Aborted ==
  /\ ~upq_alive'
  /\ priority' = priority
  /\ key_to_priority' = key_to_priority

\* C18 as stated: every precondition violation aborts and leaves the queue
\* unmodified: put_value on an entry whose status is Ready, on an entry that
\* has a value or on an unreserved key, update_value on an entry whose value
\* is None, set_ready on an absent priority or on an entry that is Ready.
C18_EveryViolationAborts ==
  [][ (upq_alive /\ (ViolatesPrecondition(upq_ret'.op, upq_ret'.args)
                       \/ PutValueOnReady(upq_ret'.op, upq_ret'.args))) => Aborted ]_vars

\* C18, amended: put_value on an entry that has a value or on an unreserved
\* key, update_value on an entry whose value is None or on an unreserved key,
\* and set_ready on an absent priority or on a Ready entry abort and leave
\* the queue unmodified; put_value on a Ready entry whose value is None does
\* not abort: it sets the value and leaves the status Ready.
C18_ViolationsAbortButPutOnReady ==
  [][ upq_alive =>
        /\ ViolatesPrecondition(upq_ret'.op, upq_ret'.args) => Aborted
        /\ (PutValueOnReady(upq_ret'.op, upq_ret'.args)
              /\ ~ViolatesPrecondition(upq_ret'.op, upq_ret'.args)) =>
             /\ upq_alive'
             /\ priority'[key_to_priority[upq_ret'.args[1]]] =
                  Entry(Ready(upq_ret'.args[1]), Some(upq_ret'.args[2]))
    ]_vars

\* a set_ready on an entry that is Ready already has aborted
C18_Witness ==
  /\ ~upq_alive
  /\ upq_ret.op = "set_ready"
  /\ upq_ret.args[1] \in DOMAIN priority
  /\ priority[upq_ret.args[1]].status.tag = "Ready"

(***************************************************************************)
(* Further properties of the blob index.                                   *)
(***************************************************************************)
\* C19: answering a Reserve leaves the ledger as it is, on disk and in the
\* connection, advances next_id by one and adds the desc replied to the
\* reserved set under its name, leaving what is reserved under every other
\* name as it was; and as long as the process lives no step removes a name
\* from the reserved set, nor changes the desc under a name other than by a
\* Reserve whose desc has that name.
C19_ReserveIsInMemoryOnly ==
  [][ /\ Len(reserve_log') > Len(reserve_log) =>
           LET b == reserve_log'[Len(reserve_log')]
           IN /\ disk' = disk
              /\ dbh' = dbh
              /\ next_id' = next_id + 1
              /\ DOMAIN reserved' = (DOMAIN reserved) \cup {b.name}
              /\ reserved'[b.name] = b
              /\ \A n \in (DOMAIN reserved) \ {b.name} : reserved'[n] = reserved[n]
      /\ (bi_state = "running" /\ bi_state' = "running") =>
           \A n \in DOMAIN reserved :
             /\ n \in DOMAIN reserved'
             /\ \/ reserved'[n] = reserved[n]
                \/ /\ Len(reserve_log') > Len(reserve_log)
                   /\ reserved'[n] = reserve_log'[Len(reserve_log')]
    ]_vars

\* a process has acknowledged the InAir and the CommitDone of one desc and
\* holds it in the reserved set still, with one it reserved and never used
C19_Witness ==
  /\ bi_state = "running"
  /\ \E i, j \in DOMAIN life :
       /\ i > log_mark /\ j > log_mark
       /\ life[i] = "done" /\ life[j] = "reserved"
       /\ reserve_log[i].name \in DOMAIN reserved
       /\ reserve_log[j].name \in DOMAIN reserved

(***************************************************************************)
(* C21: handle_path of the backup returns a child payload only for a       *)
(* directory whose Insert the key store answered with Id(id), and the      *)
(* payload is then that id.  For a symlink it returns none and has sent no *)
(* Insert; for a regular file it has sent Insert and returns none; for a   *)
(* path whose stat fails it has logged a skip, sent no Insert and returns  *)
(* none, and its task goes on to the next entry.                           *)
(***************************************************************************)
C21_DescendsOnlyIntoInsertedDirs ==
  returned # NoReturn =>
    /\ returned.ret # None =>
         /\ returned.st = "TypeDirectory"
         /\ returned.sent
         /\ returned.reply.tag = "Id"
         /\ returned.ret = Some(Some(returned.reply.id))
    /\ returned.st = "TypeSymlink" => returned.ret = None /\ ~returned.sent
    /\ returned.st = "TypeFile" => returned.ret = None /\ returned.sent
    /\ returned.st = IoError =>
         /\ returned.ret = None
         /\ ~returned.sent
         /\ returned.skipped
         /\ tw[returned.task].pc = "returned"
         /\ count < MaxCalls => ENABLED HandlePathCount(returned.task)

\* a directory has been inserted and its id is returned as the payload of its task
C21_Witness ==
  /\ returned # NoReturn
  /\ returned.st = "TypeDirectory"
  /\ returned.ret = Some(Some(id(FileEntryNew(returned.path, returned.parent,
                                               "TypeDirectory").entry)))

(***************************************************************************)
(* C22: whatever the interleaving of the tasks, a progress line is printed *)
(* only by the task that holds the mutex of last_print, only when          *)
(* last_print is at least one second older than the time that task has     *)
(* read, and last_print is then set to that time; so the line is printed   *)
(* for a second for which no line was printed before.                      *)
(***************************************************************************)
C22_OneProgressLinePerSecond ==
  [][ progress' # progress =>
        \E w \in Tasks :
          /\ last_print_lock = w
          /\ tw[w].now <= clock
          /\ last_print + 1 <= tw[w].now
          /\ last_print' = tw[w].now
          /\ Len(progress') = Len(progress) + 1
          /\ progress'[Len(progress')].now = tw[w].now
          /\ \A i \in 1..Len(progress) : progress[i].now # tw[w].now ]_vars

\* a line has been printed, and a task holds the mutex in that same second
C22_Witness ==
  /\ progress # <<>>
  /\ \E w \in Tasks :
       /\ tw[w].pc = "limit"
       /\ last_print_lock = w
       /\ tw[w].now = progress[Len(progress)].now
       /\ tw[w].count # progress[Len(progress)].count

(***************************************************************************)
(* C23: the accessors reflect the entries the queue holds and leave them   *)
(* alone.  In every reachable state find_key(k) is Some(p) exactly when an *)
(* entry (p, k) has been reserved and not popped since, and None otherwise *)
(* (so also once it is popped); find_value_of_key(k) is the value that     *)
(* entry holds, None when k is absent or the value still None.  A call of  *)
(* either returns just that, and the queue is after it what its caller's   *)
(* own record says.                                                        *)
(***************************************************************************)
Holder(k) == {p \in DOMAIN in_use : in_use[p].k = k}

HeldPrio(k) == IF Holder(k) = {} THEN None ELSE Some(CHOOSE p \in Holder(k) : TRUE)

HeldValue(k) == IF Holder(k) = {} THEN None ELSE in_use[CHOOSE p \in Holder(k) : TRUE].v

QueueIsAsRecorded ==
  /\ DOMAIN priority = DOMAIN in_use
  /\ \A p \in DOMAIN in_use :
       /\ priority[p].status.key = in_use[p].k
       /\ priority[p].value = in_use[p].v
       /\ (priority[p].status.tag = "Ready") = in_use[p].rdy
  /\ DOMAIN key_to_priority = {in_use[p].k : p \in DOMAIN in_use}

C23_AccessorsReflectEntries ==
  /\ \A k \in Keys :
       /\ Cardinality(Holder(k)) <= 1
       /\ find_key(key_to_priority, k) = HeldPrio(k)
       /\ find_value_of_key(priority, key_to_priority, k) = HeldValue(k)
  /\ upq_ret.op = "find_key" =>
       upq_alive /\ upq_ret.val = HeldPrio(upq_ret.args[1]) /\ QueueIsAsRecorded
  /\ upq_ret.op = "find_value_of_key" =>
       upq_alive /\ upq_ret.val = HeldValue(upq_ret.args[1]) /\ QueueIsAsRecorded

\* after a pop, find_key has just said None of a key while another key holds a value
C23_Witness ==
  /\ last_popped > 0
  /\ upq_ret.op = "find_key"
  /\ upq_ret.val = None
  /\ \E k \in Keys : IsSome(find_value_of_key(priority, key_to_priority, k))

(***************************************************************************)
(* C24: over the operations of the blob index and its restarts, the ledger *)
(* of a blob only moves forward, from no row to a row of tag 1 to the row  *)
(* of tag 0: a step deletes no row of the table and turns no tag 0 into 1, *)
(* a row is new with tag 1, and ids and names stay unique among the rows.  *)
(* An InAir for a desc that has its row already (InAir once more, or InAir *)
(* after CommitDone) is never carried out: it stays at the head of the     *)
(* inbox until the process takes it, and the process then ends with the    *)
(* table as it was.                                                        *)
(***************************************************************************)
HasRow(rows, blob) == \E r \in rows : r.id = blob.id /\ r.name = blob.name

SecondInAir ==
  /\ bi_state = "running"
  /\ h_pc = "idle"
  /\ inbox # <<>>
  /\ req[Cur].type = "InAir"
  /\ HasRow(dbh, req[Cur].blob)

UniqueRows(rows) == \A r1, r2 \in rows : (r1.id = r2.id \/ r1.name = r2.name) => r1 = r2

C24_LedgerOnlyMovesForward ==
  [][ /\ \A r \in disk :
           \E r2 \in disk' : r2.id = r.id /\ r2.name = r.name /\ r2.tag <= r.tag
      /\ \A r2 \in disk' :
           /\ r2.tag \in {0, 1}
           /\ (\A r \in disk : r.id # r2.id) => r2.tag = 1
      /\ UniqueRows(disk')
      /\ UniqueRows(dbh')
      /\ SecondInAir =>
           \/ bi_state' # "running" /\ disk' = disk
           \/ /\ UNCHANGED <<bi_state, disk, dbh, h_pc>>
              /\ inbox' # <<>>
              /\ inbox'[1] = Cur
              /\ req'[Cur] = req[Cur] ]_vars

\* a blob went from no row to tag 1 to tag 0, and an InAir for it is next in the inbox
C24_Witness ==
  /\ SecondInAir
  /\ \E r \in disk : r.id = req[Cur].blob.id /\ r.name = req[Cur].blob.name /\ r.tag = 0
  /\ \E i \in DOMAIN life : reserve_log[i] = req[Cur].blob /\ life[i] = "done"

====
